---- MODULE Spec2Model ----
(***************************************************************************)
(* Model of the AI event exporter inspector of snort3-ai-ops               *)
(* (snort3-plugins/event_exporter/ai_event_exporter.{h,cc}): the bounded   *)
(* event queue, its drop-oldest overflow, the size-threshold flush that    *)
(* send_event runs inline, the non-blocking delivery loop of flush_buffer, *)
(* the two lifetime counters, and the configure / tterm / destructor       *)
(* lifecycle around them.                                                  *)
(***************************************************************************)
EXTENDS Integers, Sequences, FiniteSets, TLC

(***************************************************************************)
(* Bounds of the model.                                                    *)
(***************************************************************************)
\* at most this many events are ever handed to export_alert / export_flow
MaxEvents == 5
\* at most this many sends end in a hard error (a throw caught at line 337)
MaxErrors == 2
\* at most this many events are offered to the threads that share the exporter
SharedEvents == 4
\* at most this many events are offered in the specification with fairness
FairEvents == 3
\* the events of the healthy-sink scenarios: two more than their capacity 5
ScenarioEvents == 7

(***************************************************************************)
(* Program constants.                                                      *)
(***************************************************************************)
\* send_event flushes once size() >= buffer_size / FlushDivisor
FlushDivisor == 10

\* the packet threads of the host that share the one inspector instance
Threads == {"t1", "t2"}
\* the packet thread of the single-producer specification
MainThread == "t1"
NoThread == "none"

\* the values of the min_severity option
Severities == {"low", "medium", "high", "critical"}

\* the capacities the configuration is drawn from: buffer_size / 10 is 0 for
\* the first, so every push meets the threshold and MaxEvents pushes overflow
\* it, and 4 for the second, so three events queue up before a push meets it
BufferSizes == {3, 40}

\* AIEventExporterConfig, as AIEventExporterModule::set fills it
Configs ==
    [export_alerts : BOOLEAN, export_flows : BOOLEAN,
     min_severity : Severities, buffer_size : BufferSizes]

\* what eval reads of a packet: p->active and its action (none: p->active is
\* null, pass: an action <= ACT_PASS, block: an action > ACT_PASS), p->flow
\* and its flow_state (none: p->flow is null), and the severity the alert
\* was tagged with, which only a packet with an alert action carries
NullPacket == [isnull |-> TRUE, action |-> "none", flow_state |-> "none", severity |-> "low"]
Pkt(a, f, s) == [isnull |-> FALSE, action |-> a, flow_state |-> f, severity |-> s]
Packets ==
    {NullPacket, Pkt("none", "none", "low"), Pkt("pass", "setup", "low"),
     Pkt("pass", "inspect", "low"), Pkt("block", "inspect", "high")}
    \cup {Pkt("block", "none", s) : s \in Severities}

VARIABLES
    config,         \* AIEventExporter::config
    zmq_context,    \* zmq_context != nullptr
    zmq_socket,     \* zmq_socket != nullptr
    connected,      \* zmq_socket->connect() has succeeded
    lifecycle,      \* constructed, configured, config_failed, destroyed
    event_buffer,   \* std::queue<std::string> event_buffer, front first
    mutex_owner,    \* the thread that holds buffer_mutex, or NoThread
    events_sent,
    events_dropped,
    pc,             \* where each thread is in eval / tterm
    pkt,            \* the Packet* of the eval call a thread is in
    exporting,      \* "alert" / "flow": the export_* call a thread is in
    nested,         \* flush_buffer was entered from send_event
    reg,            \* the value of events_dropped a catch handler has read
    terminated,     \* tterm has run on the thread
    pushed,         \* history: number of events ever pushed
    failed,         \* history: number of events whose serialization threw
    sent_log,       \* history: ids handed to the transport, in order
    evicted,        \* history: ids evicted by send_event, in order
    flush_entry,    \* history: event_buffer on entry of the running flush
    flush_log,      \* history: the send attempts of the running flush
    configure_ret,  \* history: what configure() returned
    dropped_incs,   \* history: number of events_dropped++ executed
    halted_front,   \* history: id of the queued item the last flush halted at
    env             \* the environment: the sink, and the events it offers

vars ==
    <<config, zmq_context, zmq_socket, connected, lifecycle, event_buffer,
      mutex_owner, events_sent, events_dropped, pc, pkt, exporting, nested,
      reg, terminated, pushed, failed, sent_log, evicted, flush_entry, flush_log,
      configure_ret, dropped_incs, halted_front, env>>

\* the state of the exporter object itself
object_vars == <<config, zmq_context, zmq_socket, connected, lifecycle, configure_ret, env>>
\* the history of the queue
queue_hist == <<pushed, failed, sent_log, evicted, dropped_incs, halted_front>>
flush_hist == <<flush_entry, flush_log>>

(***************************************************************************)
(* Construction: AIEventExporter::AIEventExporter.                         *)
(***************************************************************************)
Init ==
    /\ config \in Configs
    /\ zmq_context = FALSE
    /\ zmq_socket = FALSE
    /\ connected = FALSE
    /\ lifecycle = "constructed"
    /\ event_buffer = <<>>
    /\ mutex_owner = NoThread
    /\ events_sent = 0
    /\ events_dropped = 0
    /\ pc = [t \in Threads |-> "idle"]
    /\ pkt = [t \in Threads |-> NullPacket]
    /\ exporting = [t \in Threads |-> "none"]
    /\ nested = [t \in Threads |-> FALSE]
    /\ reg = [t \in Threads |-> 0]
    /\ terminated = [t \in Threads |-> FALSE]
    /\ pushed = 0
    /\ failed = 0
    /\ sent_log = <<>>
    /\ evicted = <<>>
    /\ flush_entry = <<>>
    /\ flush_log = <<>>
    /\ configure_ret = "none"
    /\ dropped_incs = 0
    /\ halted_front = 0
    /\ env = [sink |-> "any", events |-> MaxEvents]

\* the process is gone once a thread has dereferenced the null zmq_socket
Crashed == \E t \in Threads : pc[t] = "crashed"
\* the inspector exists and the process runs
Alive == lifecycle # "destroyed" /\ ~Crashed
AllIdle == \A t \in Threads : pc[t] = "idle"


(***************************************************************************)
(* Pure helpers of the queue and of the delivery loop.                     *)
(***************************************************************************)
\* mutants of Threshold: the occupancy never meets it, no push flushes
\* inline; only a full queue meets it
Threshold_Never == config.buffer_size + 1
Threshold_Full == config.buffer_size

\* line 308: config->buffer_size / 10, an unsigned division
Threshold == config.buffer_size \div FlushDivisor

\* line 298: event_buffer.size() >= config->buffer_size
Full(buf) == Len(buf) >= config.buffer_size

\* mutants of MakeRoom: the capacity test off by one; the newest item evicted
MakeRoom_OffByOne(buf) == IF Len(buf) > config.buffer_size THEN Tail(buf) ELSE buf
MakeRoom_DropNewest(buf) == IF Full(buf) THEN SubSeq(buf, 1, Len(buf) - 1) ELSE buf

\* lines 298-303: the queue after the pop that makes room for a push
MakeRoom(buf) == IF Full(buf) THEN Tail(buf) ELSE buf

\* mutant of Push: the new item goes to the front of the queue
Push_Front(buf, item) == <<item>> \o buf

\* line 305: event_buffer.push(event_json)
Push(buf, item) == Append(buf, item)

\* mutant of AlertEligible: the export_alerts flag is not consulted
AlertEligible_IgnoresFlag(p) == p.action = "block"

\* line 178: config->export_alerts && p->active && action > ACT_PASS
AlertEligible(p) == config.export_alerts /\ p.action = "block"

\* line 184: config->export_flows && p->flow && flow_state == INSPECT
FlowEligible(p) == config.export_flows /\ p.flow_state = "inspect"

\* the results of one pass through lines 322-341 for the front item:
\*   sent        zmq_socket->send returned a value
\*   would_block zmq_socket->send returned nothing (EAGAIN under dontwait)
\*   error       the message constructor or send threw, caught at line 337
\*   crash       zmq_socket is null and was dereferenced at line 327
\* A socket that was never connected has no peer to queue for, so its send
\* cannot succeed; a null socket is only survived when the message
\* constructor throws first.  A healthy sink is a connected peer that takes
\* every message.
SendOutcomes ==
    IF ~zmq_socket THEN {"crash", "error"}
    ELSE IF ~connected THEN {"would_block", "error"}
    ELSE IF env.sink = "healthy" THEN {"sent"}
    ELSE {"sent", "would_block", "error"}

\* mutant of Pops: an item whose send threw stays at the front
Pops_OnlySent(o) == o = "sent"

\* line 343: the iteration reaches event_buffer.pop()
Pops(o) == o \in {"sent", "error"}

\* mutants of Continues: no break on would_block; the catch leaves the loop
Continues_NoBreak(o) == TRUE
Continues_ErrorBreaks(o) == o = "sent"

\* line 334: break leaves the loop, everything else goes round again
Continues(o) == o \in {"sent", "error"}
\* line 329
CountsSent(o) == o = "sent"
\* lines 333 and 340
CountsDropped(o) == o \in {"would_block", "error"}

\* flush_buffer locks buffer_mutex (line 316) on the thread that already
\* holds it in send_event (line 296). Locking a std::mutex the thread owns is
\* undefined: the thread blocks forever on itself (a normal pthread mutex),
\* lock() throws std::system_error (an error-checking mutex), or the lock is
\* granted or skipped (locking compiled to nothing, or a recursive
\* implementation) and the flush runs inside the critical section.
RelockOutcomes == {"deadlock", "throws", "proceeds"}

\* ids of the items of buf that are not in rest, in order
Removed(buf, rest) ==
    LET ids == {rest[i].id : i \in 1..Len(rest)}
        gone == SelectSeq(buf, LAMBDA e : e.id \notin ids)
    IN  [i \in 1..Len(gone) |-> gone[i].id]

\* history: the items that left the queue through the catch at line 337
ErrorsSoFar == pushed - Len(event_buffer) - Len(sent_log) - Len(evicted)

\* eval(p) can export at most this many events
Needs(p) ==
    (IF ~p.isnull /\ AlertEligible(p) THEN 1 ELSE 0)
    + (IF ~p.isnull /\ FlowEligible(p) THEN 1 ELSE 0)
\* events the calls in progress may still push
InFlight == 2 * Cardinality({t \in Threads : pc[t] \notin {"idle", "fl_lock", "fl_loop", "fl_ret"} \/ nested[t]})

(***************************************************************************)
(* configure(): lines 124-147.  step names the statement that throws.      *)
(***************************************************************************)
ConfigureSteps == {"ok", "context", "socket", "connect"}

Configure(step) ==
    /\ Alive
    /\ lifecycle = "constructed"
    /\ AllIdle
    /\ \A t \in Threads : ~terminated[t]
    /\ pushed = 0 /\ failed = 0
    /\ zmq_context' = (step # "context")
    /\ zmq_socket' = (step \notin {"context", "socket"})
    /\ connected' = (step = "ok")
    /\ lifecycle' = IF step = "ok" THEN "configured" ELSE "config_failed"
    /\ configure_ret' = IF step = "ok" THEN "true" ELSE "false"
    /\ UNCHANGED <<config, env, event_buffer, mutex_owner, events_sent, events_dropped,
                   pc, pkt, exporting, nested, reg, terminated, queue_hist, flush_hist>>

(***************************************************************************)
(* ~AIEventExporter(): lines 110-122.                                      *)
(***************************************************************************)
Destructor ==
    /\ Alive
    /\ AllIdle
    /\ zmq_context' = FALSE
    /\ zmq_socket' = FALSE
    /\ connected' = FALSE
    /\ lifecycle' = "destroyed"
    /\ UNCHANGED <<config, configure_ret, env, event_buffer, mutex_owner, events_sent,
                   events_dropped, pc, pkt, exporting, nested, reg, terminated,
                   queue_hist, flush_hist>>

(***************************************************************************)
(* eval(p): lines 172-188.                                                 *)
(***************************************************************************)
\* the host hands packet p to the inspector on thread t
EvalCall(t, p) ==
    /\ Alive
    /\ pc[t] = "idle"
    /\ ~terminated[t]
    /\ pushed + failed + InFlight + Needs(p) <= env.events
    /\ pkt' = [pkt EXCEPT ![t] = p]
    /\ pc' = [pc EXCEPT ![t] = "eval"]
    /\ UNCHANGED <<object_vars, event_buffer, mutex_owner, events_sent, events_dropped,
                   exporting, nested, reg, terminated, queue_hist, flush_hist>>

\* lines 174-181: the null check and the alert gate
EvalAlertGate(t) ==
    /\ Alive
    /\ pc[t] = "eval"
    /\ IF pkt[t].isnull
       THEN /\ pc' = [pc EXCEPT ![t] = "idle"]
            /\ UNCHANGED exporting
       ELSE IF AlertEligible(pkt[t])
       THEN /\ pc' = [pc EXCEPT ![t] = "export"]
            /\ exporting' = [exporting EXCEPT ![t] = "alert"]
       ELSE /\ pc' = [pc EXCEPT ![t] = "eval_flow"]
            /\ UNCHANGED exporting
    /\ UNCHANGED <<object_vars, event_buffer, mutex_owner, events_sent, events_dropped,
                   pkt, nested, reg, terminated, queue_hist, flush_hist>>

\* lines 184-188: the flow gate and the return of eval
EvalFlowGate(t) ==
    /\ Alive
    /\ pc[t] = "eval_flow"
    /\ IF FlowEligible(pkt[t])
       THEN /\ pc' = [pc EXCEPT ![t] = "export"]
            /\ exporting' = [exporting EXCEPT ![t] = "flow"]
            /\ UNCHANGED pkt
       ELSE /\ pc' = [pc EXCEPT ![t] = "idle"]
            /\ pkt' = [pkt EXCEPT ![t] = NullPacket]
            /\ UNCHANGED exporting
    /\ UNCHANGED <<object_vars, event_buffer, mutex_owner, events_sent, events_dropped,
                   nested, reg, terminated, queue_hist, flush_hist>>

\* where export_alert / export_flow returns to
AfterExport(t) == IF exporting[t] = "alert" THEN "eval_flow" ELSE "idle"
PktAfterExport(t) == IF exporting[t] = "alert" THEN pkt[t] ELSE NullPacket

(***************************************************************************)
(* export_alert / export_flow: lines 266-292.                              *)
(***************************************************************************)
\* lines 270 and 284: serialize_packet / serialize_flow returns or throws
ExportSerialize(t) ==
    /\ Alive
    /\ pc[t] = "export"
    /\ \E ok \in BOOLEAN :
          /\ pc' = [pc EXCEPT ![t] = IF ok THEN "send_event" ELSE "catch_read"]
          /\ failed' = IF ok THEN failed ELSE failed + 1
    /\ UNCHANGED <<object_vars, event_buffer, mutex_owner, events_sent, events_dropped,
                   pkt, exporting, nested, reg, terminated, pushed, sent_log, evicted,
                   dropped_incs, halted_front, flush_hist>>

\* lines 276 and 290: events_dropped++ of the handler, outside buffer_mutex:
\* the load
CatchRead(t) ==
    /\ Alive
    /\ pc[t] = "catch_read"
    /\ reg' = [reg EXCEPT ![t] = events_dropped]
    /\ pc' = [pc EXCEPT ![t] = "catch_write"]
    /\ UNCHANGED <<object_vars, event_buffer, mutex_owner, events_sent, events_dropped,
                   pkt, exporting, nested, terminated, queue_hist, flush_hist>>

\* mutant of CatchWrite: the handler swallows the failure without counting it
CatchWrite_NoCount(t) ==
    /\ Alive
    /\ pc[t] = "catch_write"
    /\ reg' = [reg EXCEPT ![t] = 0]
    /\ pc' = [pc EXCEPT ![t] = AfterExport(t)]
    /\ pkt' = [pkt EXCEPT ![t] = PktAfterExport(t)]
    /\ exporting' = [exporting EXCEPT ![t] = "none"]
    /\ UNCHANGED <<object_vars, event_buffer, mutex_owner, events_sent, events_dropped,
                   nested, terminated, queue_hist, flush_hist>>

\* ... and the store, then the return to eval
CatchWrite(t) ==
    /\ Alive
    /\ pc[t] = "catch_write"
    /\ events_dropped' = reg[t] + 1
    /\ dropped_incs' = dropped_incs + 1
    /\ reg' = [reg EXCEPT ![t] = 0]
    /\ pc' = [pc EXCEPT ![t] = AfterExport(t)]
    /\ pkt' = [pkt EXCEPT ![t] = PktAfterExport(t)]
    /\ exporting' = [exporting EXCEPT ![t] = "none"]
    /\ UNCHANGED <<object_vars, event_buffer, mutex_owner, events_sent,
                   nested, terminated, pushed, failed, sent_log, evicted, halted_front,
                   flush_hist>>


(***************************************************************************)
(* send_event: lines 294-312.                                              *)
(***************************************************************************)
\* mutant of SendEventLock: the lock is taken without waiting for its holder
SendEventLock_NoWait(t) ==
    /\ Alive
    /\ pc[t] = "send_event"
    /\ mutex_owner' = t
    /\ pc' = [pc EXCEPT ![t] = "se_cs"]
    /\ UNCHANGED <<object_vars, event_buffer, events_sent, events_dropped, pkt,
                   exporting, nested, reg, terminated, queue_hist, flush_hist>>

\* line 296: lock_guard<mutex> lock(buffer_mutex)
SendEventLock(t) ==
    /\ Alive
    /\ pc[t] = "send_event"
    /\ mutex_owner = NoThread
    /\ mutex_owner' = t
    /\ pc' = [pc EXCEPT ![t] = "se_cs"]
    /\ UNCHANGED <<object_vars, event_buffer, events_sent, events_dropped, pkt,
                   exporting, nested, reg, terminated, queue_hist, flush_hist>>

\* lines 298-308: make room, push, compare the occupancy with the threshold
SendEventPush(t) ==
    /\ Alive
    /\ pc[t] = "se_cs"
    /\ LET room == MakeRoom(event_buffer)
           item == [id |-> pushed + 1, type |-> exporting[t]]
       IN  /\ event_buffer' = Push(room, item)
           /\ events_dropped' = IF Full(event_buffer) THEN events_dropped + 1
                                ELSE events_dropped
           /\ dropped_incs' = IF Full(event_buffer) THEN dropped_incs + 1
                              ELSE dropped_incs
           /\ evicted' = evicted \o Removed(event_buffer, room)
           /\ halted_front' = IF Full(event_buffer) THEN 0 ELSE halted_front
           /\ pushed' = pushed + 1
           /\ pc' = [pc EXCEPT ![t] = IF Len(event_buffer') >= Threshold
                                      THEN "se_flush" ELSE "se_ret"]
    /\ UNCHANGED <<object_vars, mutex_owner, events_sent, pkt, exporting, nested,
                   reg, terminated, failed, sent_log, flush_hist>>

\* lines 298-305 when event_buffer.push throws (std::bad_alloc): the pop that
\* made room has happened, the lock_guard unwinds and export_* catches
SendEventPushThrows(t) ==
    /\ Alive
    /\ pc[t] = "se_cs"
    /\ LET room == MakeRoom(event_buffer)
       IN  /\ event_buffer' = room
           /\ events_dropped' = IF Full(event_buffer) THEN events_dropped + 1
                                ELSE events_dropped
           /\ dropped_incs' = IF Full(event_buffer) THEN dropped_incs + 1
                              ELSE dropped_incs
           /\ evicted' = evicted \o Removed(event_buffer, room)
           /\ halted_front' = IF Full(event_buffer) THEN 0 ELSE halted_front
    /\ failed' = failed + 1
    /\ mutex_owner' = NoThread
    /\ pc' = [pc EXCEPT ![t] = "catch_read"]
    /\ UNCHANGED <<object_vars, events_sent, pkt, exporting, nested, reg, terminated,
                   pushed, sent_log, flush_hist>>

\* line 310 into line 316: flush_buffer() locks the mutex send_event holds
SendEventFlush(t) ==
    /\ Alive
    /\ pc[t] = "se_flush"
    /\ \E o \in RelockOutcomes :
          \/ /\ o = "deadlock"
             /\ pc' = [pc EXCEPT ![t] = "deadlocked"]
             /\ UNCHANGED <<mutex_owner, nested, flush_hist>>
          \/ /\ o = "throws"
             \* unwinding runs the lock_guard of send_event; export_* catches
             /\ mutex_owner' = NoThread
             /\ pc' = [pc EXCEPT ![t] = "catch_read"]
             /\ UNCHANGED <<nested, flush_hist>>
          \/ /\ o = "proceeds"
             /\ pc' = [pc EXCEPT ![t] = "fl_loop"]
             /\ nested' = [nested EXCEPT ![t] = TRUE]
             /\ flush_entry' = event_buffer
             /\ flush_log' = <<>>
             /\ UNCHANGED mutex_owner
    /\ UNCHANGED <<object_vars, event_buffer, events_sent, events_dropped, pkt,
                   exporting, reg, terminated, queue_hist>>

\* line 312: the lock_guard releases buffer_mutex; export_* and eval go on
SendEventReturn(t) ==
    /\ Alive
    /\ pc[t] = "se_ret"
    /\ mutex_owner' = NoThread
    /\ pc' = [pc EXCEPT ![t] = AfterExport(t)]
    /\ pkt' = [pkt EXCEPT ![t] = PktAfterExport(t)]
    /\ exporting' = [exporting EXCEPT ![t] = "none"]
    /\ UNCHANGED <<object_vars, event_buffer, events_sent, events_dropped, nested,
                   reg, terminated, queue_hist, flush_hist>>

(***************************************************************************)
(* tterm: lines 154-157.                                                   *)
(***************************************************************************)
TtermCall(t) ==
    /\ Alive
    /\ pc[t] = "idle"
    /\ ~terminated[t]
    /\ terminated' = [terminated EXCEPT ![t] = TRUE]
    /\ pc' = [pc EXCEPT ![t] = "fl_lock"]
    /\ UNCHANGED <<object_vars, event_buffer, mutex_owner, events_sent, events_dropped,
                   pkt, exporting, nested, reg, queue_hist, flush_hist>>

(***************************************************************************)
(* flush_buffer: lines 314-345.                                            *)
(***************************************************************************)
\* line 316, reached from tterm: the mutex is free or held by another thread
FlushLock(t) ==
    /\ Alive
    /\ pc[t] = "fl_lock"
    /\ mutex_owner = NoThread
    /\ mutex_owner' = t
    /\ pc' = [pc EXCEPT ![t] = "fl_loop"]
    /\ flush_entry' = event_buffer
    /\ flush_log' = <<>>
    /\ UNCHANGED <<object_vars, event_buffer, events_sent, events_dropped, pkt,
                   exporting, nested, reg, terminated, queue_hist>>

\* lines 318-344: the loop test and one iteration
FlushIter(t) ==
    /\ Alive
    /\ pc[t] = "fl_loop"
    /\ IF event_buffer = <<>>
       THEN /\ pc' = [pc EXCEPT ![t] = "fl_ret"]
            /\ UNCHANGED <<event_buffer, events_sent, events_dropped, dropped_incs,
                           halted_front, sent_log, flush_log>>
       ELSE \E o \in SendOutcomes :
            LET event == Head(event_buffer) IN
            /\ o = "error" => ErrorsSoFar < MaxErrors
            /\ flush_log' = Append(flush_log, [id |-> event.id, outcome |-> o])
            /\ events_sent' = IF CountsSent(o) THEN events_sent + 1 ELSE events_sent
            /\ events_dropped' = IF CountsDropped(o) THEN events_dropped + 1
                                 ELSE events_dropped
            /\ dropped_incs' = IF CountsDropped(o) THEN dropped_incs + 1
                               ELSE dropped_incs
            /\ sent_log' = IF o = "sent" THEN Append(sent_log, event.id) ELSE sent_log
            /\ halted_front' = IF o = "would_block" THEN event.id ELSE 0
            /\ event_buffer' = IF o # "crash" /\ Pops(o) THEN Tail(event_buffer)
                               ELSE event_buffer
            /\ pc' = [pc EXCEPT ![t] = IF o = "crash" THEN "crashed"
                                       ELSE IF Continues(o) THEN "fl_loop"
                                       ELSE "fl_ret"]
    /\ UNCHANGED <<object_vars, mutex_owner, pkt, exporting, nested, reg, terminated,
                   pushed, failed, evicted, flush_entry>>

\* line 345: flush_buffer returns, to send_event or to tterm
FlushReturn(t) ==
    /\ Alive
    /\ pc[t] = "fl_ret"
    /\ IF nested[t]
       THEN /\ pc' = [pc EXCEPT ![t] = "se_ret"]
            /\ nested' = [nested EXCEPT ![t] = FALSE]
            /\ UNCHANGED mutex_owner
       ELSE /\ pc' = [pc EXCEPT ![t] = "idle"]
            /\ mutex_owner' = NoThread
            /\ UNCHANGED nested
    /\ flush_entry' = <<>>
    /\ flush_log' = <<>>
    /\ UNCHANGED <<object_vars, event_buffer, events_sent, events_dropped, pkt,
                   exporting, reg, terminated, queue_hist>>

(***************************************************************************)
(* The exporter driven by one packet thread.                               *)
(***************************************************************************)
Step(t) ==
    \/ \E p \in Packets : EvalCall(t, p)
    \/ EvalAlertGate(t)
    \/ EvalFlowGate(t)
    \/ ExportSerialize(t)
    \/ CatchRead(t)
    \/ CatchWrite(t)
    \/ SendEventLock(t)
    \/ SendEventPush(t)
    \/ SendEventPushThrows(t)
    \/ SendEventFlush(t)
    \/ SendEventReturn(t)
    \/ TtermCall(t)
    \/ FlushLock(t)
    \/ FlushIter(t)
    \/ FlushReturn(t)

Next ==
    \/ \E step \in ConfigureSteps : Configure(step)
    \/ Destructor
    \/ Step(MainThread)

Spec == Init /\ [][Next]_vars

(***************************************************************************)
(* The exporter after a successful configure(), shared by the packet       *)
(* threads of the host: eval and tterm run on every thread, on the one     *)
(* inspector instance.                                                     *)
(***************************************************************************)
\* the state configure() leaves when no statement of it throws
Configured(c, e) ==
    /\ config = c
    /\ env = e
    /\ zmq_context = TRUE
    /\ zmq_socket = TRUE
    /\ connected = TRUE
    /\ lifecycle = "configured"
    /\ configure_ret = "true"
    /\ event_buffer = <<>>
    /\ mutex_owner = NoThread
    /\ events_sent = 0
    /\ events_dropped = 0
    /\ pc = [t \in Threads |-> "idle"]
    /\ pkt = [t \in Threads |-> NullPacket]
    /\ exporting = [t \in Threads |-> "none"]
    /\ nested = [t \in Threads |-> FALSE]
    /\ reg = [t \in Threads |-> 0]
    /\ terminated = [t \in Threads |-> FALSE]
    /\ pushed = 0
    /\ failed = 0
    /\ sent_log = <<>>
    /\ evicted = <<>>
    /\ flush_entry = <<>>
    /\ flush_log = <<>>
    /\ dropped_incs = 0
    /\ halted_front = 0

\* both event classes exported; min_severity is read by nothing
SharedConfigs ==
    {c \in Configs : c.export_alerts /\ c.export_flows /\ c.min_severity = "low"}

InitShared ==
    \E c \in SharedConfigs : Configured(c, [sink |-> "any", events |-> SharedEvents])

NextShared == \E t \in Threads : Step(t)

SpecShared == InitShared /\ [][NextShared]_vars

(***************************************************************************)
(* The configured exporter on one packet thread that keeps running: a      *)
(* thread that can take buffer_mutex takes it, an iteration of the loop    *)
(* of flush_buffer completes (the send is zmq::send_flags::dontwait, it    *)
(* returns at once), and flush_buffer returns to its caller.               *)
(***************************************************************************)
InitFair ==
    \E c \in SharedConfigs : Configured(c, [sink |-> "any", events |-> FairEvents])

NextFair == Step(MainThread)

Fairness ==
    /\ WF_vars(FlushLock(MainThread))
    /\ WF_vars(FlushIter(MainThread))
    /\ WF_vars(FlushReturn(MainThread))

SpecFair == InitFair /\ [][NextFair]_vars /\ Fairness

(***************************************************************************)
(* The configured exporter in front of a healthy sink: one packet thread,  *)
(* a peer that takes every message, capacities 5 (threshold 0) and 10      *)
(* (threshold 1).                                                          *)
(***************************************************************************)
ScenarioConfigs ==
    [export_alerts : {TRUE}, export_flows : {TRUE},
     min_severity : {"low"}, buffer_size : {5, 10}]

InitScenario ==
    \E c \in ScenarioConfigs :
        Configured(c, [sink |-> "healthy", events |-> ScenarioEvents])

NextScenario == Step(MainThread)

SpecScenario == InitScenario /\ [][NextScenario]_vars


(***************************************************************************)
(* Properties.                                                             *)
(***************************************************************************)
Ids(buf) == [i \in 1..Len(buf) |-> buf[i].id]
\* the thread inside flush_buffer, if any
Flushing(t) == pc[t] \in {"fl_loop", "fl_ret"}
\* send_event on t has pushed its item and not yet returned
HasPushed(t) ==
    \/ pc[t] \in {"se_flush", "se_ret", "deadlocked"}
    \/ Flushing(t) /\ nested[t]

\* no push has met the threshold yet: send_event has never called
\* flush_buffer, and the only flush there can be is the one tterm runs
NoInlineFlush == pushed < Threshold

\* C1: the occupancy of event_buffer never exceeds buffer_size, and a push
\* is never rejected: while send_event has pushed and not returned, its item
\* is the newest element of the queue unless the inline flush already took
\* the whole queue out.
C1_CapacityInvariant ==
    /\ Len(event_buffer) <= config.buffer_size
    /\ \A t \in Threads :
          HasPushed(t) =>
             /\ event_buffer # <<>> => event_buffer[Len(event_buffer)].id = pushed
             /\ pc[t] \in {"se_flush", "deadlocked"} => event_buffer # <<>>

\* a full queue out of which an item has been evicted
C1_Witness ==
    /\ Len(event_buffer) = config.buffer_size
    /\ evicted # <<>>
    /\ \E t \in Threads : pc[t] = "se_flush"

\* C2: every call of send_event returns: no thread is ever blocked for good
\* on buffer_mutex inside flush_buffer.
C2_SendEventReturns == \A t \in Threads : pc[t] # "deadlocked"

\* C3: whenever no call is in progress, events_sent + events_dropped is the
\* number of events pushed minus the number still queued.  (Stated for the
\* runs in which no serialization failed, so that every count is of a pushed
\* event, and in which the only flush is the one of tterm.)
C3_CounterConservation ==
    (AllIdle /\ failed = 0 /\ NoInlineFlush) =>
        events_sent + events_dropped = pushed - Len(event_buffer)

\* C4: the items handed to the transport are a subsequence of the push order:
\* ids are given in push order, so the ids sent are strictly increasing
\* (nothing reordered, nothing sent twice) and each is the id of a push.
C4_FlushOrdering ==
    /\ \A i \in 1..Len(sent_log) : sent_log[i] \in 1..pushed
    /\ \A i, j \in 1..Len(sent_log) : i < j => sent_log[i] < sent_log[j]

\* items sent across a gap left by an eviction or a failed send
C4_Witness ==
    /\ Len(sent_log) >= 2
    /\ evicted # <<>>
    /\ \E i \in 1..(Len(sent_log) - 1) : sent_log[i + 1] > sent_log[i] + 1

\* the running flush has sent k-1 items and been refused the k-th
HaltedAt(k) ==
    /\ k = Len(flush_log)
    /\ k >= 1
    /\ flush_log[k].outcome = "would_block"
    /\ \A i \in 1..(k - 1) : flush_log[i].outcome = "sent"

\* C5: when the sink accepts items 1..k-1 of a flush of n items and reports
\* would_block on item k, the flush stops there: the attempts were exactly
\* items 1..k in order, items 1..k-1 are the last k-1 items sent and are
\* gone, and items k..n are the queue, in their order.
C5_NonBlockingHalt ==
    \A k \in 1..Len(flush_log) :
        HaltedAt(k) =>
            /\ \E t \in Threads : pc[t] = "fl_ret"
            /\ k <= Len(flush_entry)
            /\ \A i \in 1..k : flush_log[i].id = flush_entry[i].id
            /\ event_buffer = SubSeq(flush_entry, k, Len(flush_entry))
            /\ Len(sent_log) >= k - 1
            /\ \A i \in 1..(k - 1) :
                  sent_log[Len(sent_log) - (k - 1) + i] = flush_entry[i].id

\* a flush of at least three items refused on an item that is neither the
\* first nor the last
C5_Witness ==
    /\ NoInlineFlush
    /\ \E k \in 2..Len(flush_log) : HaltedAt(k) /\ Len(flush_entry) > k

\* the premise of C6: buffer_size + 1 events pushed, no further push that
\* failed, and none of the events sent or dropped by a flush
OverflowedOnce ==
    /\ pushed = config.buffer_size + 1
    /\ failed = 0
    /\ sent_log = <<>>
    /\ pushed = Len(event_buffer) + Len(evicted)

\* C6: after buffer_size + 1 pushes with nothing leaving through a flush, the
\* queue holds items 2..buffer_size+1 in push order and item 1 is the one
\* evicted; an eviction adds exactly one to events_dropped.
C6_FifoEviction ==
    /\ [](OverflowedOnce =>
            /\ Ids(event_buffer) = [i \in 1..config.buffer_size |-> i + 1]
            /\ evicted = <<1>>
            /\ events_dropped >= 1)
    /\ [][evicted' # evicted =>
            /\ evicted' = Append(evicted, Head(event_buffer).id)
            /\ events_dropped' = events_dropped + 1]_vars

C6_Witness == OverflowedOnce /\ evicted = <<1>> /\ AllIdle

\* the step is one iteration of the flush loop whose send ended in o
Attempt(o) ==
    /\ Len(flush_log') = Len(flush_log) + 1
    /\ flush_log'[Len(flush_log')].outcome = o
FlushReturning == \E t \in Threads : pc[t] = "fl_ret"

\* C7 as stated: once a send of a flush has failed with a hard error, every
\* item that was queued behind the failed one has been attempted by the time
\* the flush returns.  (Stated for the flush of tterm.)
C7_EveryItemBehindAttempted ==
    (FlushReturning /\ NoInlineFlush) =>
        \A i \in 1..Len(flush_log) :
            flush_log[i].outcome = "error" =>
                \A j \in (i + 1)..Len(flush_entry) :
                    \E m \in 1..Len(flush_log) : flush_log[m].id = flush_entry[j].id

\* C7 as amended: a hard error on the front item adds exactly one to
\* events_dropped, removes that item and leaves the loop running; the item
\* behind it is attempted next, and the flush goes on in queue order until
\* the queue is empty or a send reports would_block.
C7_ItemLocalError ==
    /\ [](\A i \in 1..Len(flush_log) :
            /\ i <= Len(flush_entry) /\ flush_log[i].id = flush_entry[i].id
            /\ flush_log[i].outcome = "error" =>
                /\ \A n \in 1..Len(event_buffer) : event_buffer[n].id # flush_log[i].id
                /\ (FlushReturning /\ i < Len(flush_entry)) => Len(flush_log) > i)
    /\ [](FlushReturning =>
            \/ Len(flush_log) = Len(flush_entry) /\ event_buffer = <<>>
            \/ /\ flush_log # <<>>
               /\ flush_log[Len(flush_log)].outcome = "would_block")
    /\ [][Attempt("error") =>
            /\ events_dropped' = events_dropped + 1
            /\ events_sent' = events_sent
            /\ event_buffer' = Tail(event_buffer)
            /\ \E t \in Threads : pc[t] = "fl_loop" /\ pc'[t] = "fl_loop"]_vars

\* a flush that returns after a failed send followed by further attempts
C7_Witness ==
    /\ FlushReturning
    /\ NoInlineFlush
    /\ \E i \in 1..(Len(flush_log) - 1) :
          flush_log[i].outcome = "error" /\ flush_log[i + 1].outcome = "sent"

\* C8: a send that reports would_block evicts nothing and leaves
\* events_dropped unchanged: the item stays queued and is not counted.
\* (Stated for the flush of tterm.)
C8_SaturationDefers ==
    [][(Attempt("would_block") /\ NoInlineFlush) =>
          /\ event_buffer' = event_buffer
          /\ evicted' = evicted
          /\ events_dropped' = events_dropped]_vars

\* the fixed total order low < medium < high < critical
SevRank(s) ==
    CASE s = "low" -> 1 [] s = "medium" -> 2 [] s = "high" -> 3 [] s = "critical" -> 4

\* C9: an alert is enqueued only if its severity is at or above
\* min_severity: whenever send_event has pushed the alert of a packet, the
\* packet's severity is not below the configured minimum.
C9_SeverityGating ==
    \A t \in Threads :
        (HasPushed(t) /\ exporting[t] = "alert") =>
            SevRank(pkt[t].severity) >= SevRank(config.min_severity)

\* C10: after configure() has failed (and reported it) no event is accepted
\* and the transport is never touched: the queue stays empty, the counters
\* stay 0, no send is attempted and the process does not crash.  (Stated for
\* the state after a failed configure() and for the runs in which every
\* serialization succeeds; the claim says the same of the exporter before
\* configure().)
C10_InertWithoutTransport ==
    (lifecycle = "config_failed" /\ failed = 0) =>
        /\ configure_ret = "false"
        /\ event_buffer = <<>>
        /\ events_sent = 0
        /\ events_dropped = 0
        /\ flush_log = <<>>
        /\ ~Crashed

\* a step in which serialize_* or event_buffer.push throws
ProducerFailure == failed' = failed + 1
\* the step in which the handler of export_* on t completes
HandlerDone(t) == pc[t] = "catch_write" /\ pc'[t] # "catch_write"

\* C11: a failure of the serialization or of the push is absorbed by
\* export_alert / export_flow.  The failing step leaves the event out of the
\* queue and lands in the handler with buffer_mutex released; the handler
\* adds exactly one to events_dropped, touches nothing else and returns into
\* eval (to the flow gate after an alert, to the host after a flow), never
\* ending the process; and as long as nothing else counts a drop (no flush
\* has run and nothing was evicted) events_dropped is, between calls, the
\* number of failed events.
C11_ProducerFailureAbsorbed ==
    /\ [][ProducerFailure =>
            /\ pushed' = pushed /\ events_sent' = events_sent
            /\ Len(event_buffer') <= Len(event_buffer)
            /\ \E t \in Threads : pc'[t] = "catch_read" /\ pc[t] # "catch_read"]_vars
    /\ [](\A t \in Threads :
            pc[t] \in {"catch_read", "catch_write"} => mutex_owner # t /\ ~Crashed)
    /\ [][\A t \in Threads : HandlerDone(t) =>
            /\ events_dropped' = events_dropped + 1
            /\ pc'[t] = (IF exporting[t] = "alert" THEN "eval_flow" ELSE "idle")
            /\ UNCHANGED <<event_buffer, events_sent, mutex_owner, lifecycle>>]_vars
    /\ []((AllIdle /\ NoInlineFlush /\ evicted = <<>>
            /\ \A t \in Threads : ~terminated[t]) => events_dropped = failed)

\* after a failure was counted, a later event has been pushed as the newest
\* item and send_event is about to return
C11_Witness ==
    /\ failed >= 1
    /\ events_dropped = failed
    /\ NoInlineFlush
    /\ \E t \in Threads :
          /\ pc[t] = "se_ret"
          /\ event_buffer # <<>> /\ event_buffer[Len(event_buffer)].id = pushed

\* t is between the lock of send_event / flush_buffer and its release
InCritical(t) == pc[t] \in {"se_cs", "se_flush", "se_ret", "fl_loop", "fl_ret", "deadlocked"}
StrictlyIncreasing(ids) == \A i, j \in 1..Len(ids) : i < j => ids[i] < ids[j]

\* C12: with two packet threads in send_event and tterm at once, the push,
\* the threshold test and the inline flush of one call are one critical
\* section: a thread inside it holds buffer_mutex, so no two threads are
\* inside at once, and from the push of a call to its return the queue is
\* changed by that call's own flush only.  In every interleaving the queue
\* holds at most buffer_size items, and items leave in enqueue order: the
\* queue is in push order, evictions and sends each go in push order, and
\* whatever has left is older than whatever is still queued.
C12_AtomicSendEvent ==
    /\ [](\A t \in Threads : InCritical(t) => mutex_owner = t)
    /\ [][\A t \in Threads :
            (HasPushed(t) /\ HasPushed(t)' /\ event_buffer' # event_buffer) =>
                /\ pc[t] = "fl_loop"
                /\ \A u \in Threads \ {t} : pc'[u] = pc[u] /\ ~InCritical(u)]_vars
    /\ [](Len(event_buffer) <= config.buffer_size)
    /\ [](/\ StrictlyIncreasing(Ids(event_buffer))
          /\ StrictlyIncreasing(evicted)
          /\ StrictlyIncreasing(sent_log)
          /\ \A n \in 1..Len(event_buffer) :
                /\ \A i \in 1..Len(evicted) : evicted[i] < event_buffer[n].id
                /\ \A i \in 1..Len(sent_log) : sent_log[i] < event_buffer[n].id)

\* one thread has pushed onto a queue out of which an item was evicted and
\* is about to return, while the other waits in tterm for buffer_mutex
C12_Witness ==
    \E t, u \in Threads :
        /\ t # u
        /\ pc[t] = "se_ret" /\ pc[u] = "fl_lock"
        /\ evicted # <<>> /\ sent_log # <<>>
        /\ Len(event_buffer) >= 2

\* every call has returned and tterm has run its final flush
Done == AllIdle /\ terminated[MainThread]
\* the scenario of capacity 5: seven events pushed, then the final flush
OverflowScenarioDone ==
    config.buffer_size = 5 /\ env.sink = "healthy" /\ pushed = 7 /\ failed = 0 /\ Done

C14_HealthySinkNoLoss ==
    (env.sink = "healthy" /\ failed = 0) =>
        /\ events_dropped = 0
        /\ evicted = <<>>
        /\ \A t \in Threads :
              /\ pc[t] # "deadlocked"
              /\ (pc[t] = "se_ret" /\ pushed >= Threshold) => event_buffer = <<>>
        /\ Done => events_sent = pushed /\ event_buffer = <<>>

\* C15: a send is only ever attempted on a transport that configure() has
\* opened and the destructor has not yet closed: whenever the running flush
\* has made a send attempt, the socket exists and is connected.  (Stated for
\* the flush of tterm once configure() has been called, in the runs in which
\* every serialization succeeds.)
C15_SendOnlyOnOpenTransport ==
    (flush_log # <<>> /\ lifecycle # "constructed" /\ NoInlineFlush /\ failed = 0) =>
        /\ lifecycle = "configured"
        /\ zmq_context /\ zmq_socket /\ connected

\* a packet eval has nothing to export for: null, or neither a blocking
\* alert with export_alerts set nor an inspected flow with export_flows set
Ignored(p) ==
    \/ p.isnull
    \/ /\ ~(p.action = "block" /\ config.export_alerts)
       /\ ~(p.flow_state = "inspect" /\ config.export_flows)

\* C16: eval on a null packet, on a packet that is neither alert- nor
\* flow-eligible, or on one whose only eligible class has its export flag
\* off, changes nothing: each step of the call goes on to the flow gate or
\* back to the host, never into export_alert / export_flow, and leaves the
\* queue, both counters, the mutex and the transport (no send attempt) as
\* they were.
C16_IgnoredEventsChangeNothing ==
    [][\A t \in Threads :
        (pc[t] \in {"eval", "eval_flow"} /\ Ignored(pkt[t]) /\ pc'[t] # pc[t]) =>
            /\ pc'[t] = (IF pc[t] = "eval" /\ ~pkt[t].isnull THEN "eval_flow"
                         ELSE "idle")
            /\ UNCHANGED <<event_buffer, events_sent, events_dropped, mutex_owner,
                           pushed, failed, sent_log, evicted, flush_log,
                           zmq_socket, connected>>]_vars

\* eval has passed the alert gate with a blocking alert whose export flag is
\* off, and goes on to drop out at the flow gate, over a non-empty queue
C16_Witness ==
    \E t \in Threads :
        /\ pc[t] = "eval_flow"
        /\ pkt[t].action = "block" /\ ~config.export_alerts
        /\ Ignored(pkt[t])
        /\ event_buffer # <<>>

\* the step of send_event on t that pushes its item
PushStep(t) == pc[t] = "se_cs" /\ pushed' = pushed + 1
\* the occupancy is below a tenth of the capacity, rounded down
BelowTenth(buf) == Len(buf) < config.buffer_size \div 10

Unattempted == SubSeq(flush_entry, Len(flush_log) + 1, Len(flush_entry))

\* C18: tterm always runs one flush pass, and a flush pass ends whatever the
\* sink does.  tterm goes straight to flush_buffer and comes back; a pass
\* once in its loop leaves it; the attempts of a pass are of the items
\* queued on entry, one each, in order; would_block is the last attempt of
\* its pass (no retry); every iteration makes one attempt or leaves the
\* loop; and a pass that returns leaves exactly the items it did not
\* deliver or drop: the blocked item and everything behind it.
C18_ShutdownFlushBounded ==
    /\ [][\A t \in Threads : (terminated'[t] /\ ~terminated[t]) =>
            pc[t] = "idle" /\ pc'[t] = "fl_lock"]_vars
    /\ \A t \in Threads : (pc[t] = "fl_lock" /\ mutex_owner = NoThread) ~> (pc[t] = "idle")
    /\ \A t \in Threads : (pc[t] = "fl_loop") ~> (pc[t] \in {"idle", "se_ret"})
    /\ [](/\ Len(flush_log) <= Len(flush_entry)
          /\ \A i \in 1..Len(flush_log) :
                /\ flush_log[i].id = flush_entry[i].id
                /\ flush_log[i].outcome = "would_block" =>
                      i = Len(flush_log) /\ \E t \in Threads : pc[t] = "fl_ret")
    /\ [][\A t \in Threads : (pc[t] = "fl_loop" /\ pc'[t] = "fl_loop") =>
            Len(flush_log') = Len(flush_log) + 1]_vars
    /\ [](FlushReturning =>
            event_buffer = (IF flush_log # <<>>
                               /\ flush_log[Len(flush_log)].outcome = "would_block"
                            THEN <<flush_entry[Len(flush_log)]>> \o Unattempted
                            ELSE <<>>))

\* tterm's flush pass returns having delivered one item, dropped the next
\* and stopped at the third, which stays queued with the one behind it
C18_Witness ==
    /\ \E t \in Threads : pc[t] = "fl_ret" /\ ~nested[t] /\ terminated[t]
    /\ Len(flush_entry) = 3
    /\ Len(flush_log) = 2
    /\ flush_log[1].outcome = "error"
    /\ flush_log[2].outcome = "would_block"
    /\ Len(event_buffer) = 2

\* C19: an item a flush halted at (would_block) and left at the front is
\* attempted again, first, by the next trigger: when a push of send_event
\* has met the threshold while that item waits at the front, the next step
\* of the call enters the loop of flush_buffer, whose first attempt is the
\* front item.  (Stated for the runs in which every serialization succeeds,
\* the halted flush is the one of tterm and the trigger is the first push
\* to meet the threshold.)
C19_BlockedItemRetried ==
    [][\A t \in Threads :
        (/\ pc[t] = "se_flush" /\ pc'[t] # "se_flush"
         /\ halted_front # 0 /\ event_buffer[1].id = halted_front
         /\ failed = 0 /\ pushed <= Threshold) =>
            pc'[t] = "fl_loop" /\ flush_entry' = event_buffer]_vars

\* C20: no increment of a counter is lost: whenever no call is in progress,
\* events_dropped is the number of events_dropped++ that were executed and
\* events_sent the number of items handed to the transport.
C20_NoLostIncrement ==
    AllIdle => events_dropped = dropped_incs /\ events_sent = Len(sent_log)
====
